---- MODULE Spec2Model ----
(***************************************************************************)
(* FurDLP runner: the G-code executor (gcode_executor.py) driving the GRBL *)
(* serial client (grbl_client.py), the DLP projector and the HDMI display. *)
(*                                                                         *)
(* Two runs of run_print.main over the same G-code file are modelled side  *)
(* by side, one with Settings.DRY_RUN = False ("live") and one with        *)
(* Settings.DRY_RUN = True ("dry"): both open the serial port in step, and *)
(* the next line of the file is drawn when both are about to read it.  Text is a sequence of one-letter  *)
(* strings, time is counted in whole ticks (one tick is one second).       *)
(* ProbeSpec applies get_status and the M6054 name resolution on their own *)
(* to many more texts than a run of the file meets; RerunSpec lets         *)
(* run_file be called again on an executor whose run has returned;         *)
(* ZeroTimeoutSpec runs the program with an idle timeout of 0.             *)
(***************************************************************************)
EXTENDS Integers, Sequences, FiniteSets, TLC

(* ------------------------------ bounds -------------------------------- *)
\* lines the G-code file may hold
MaxLines == 3
\* GcodeExecutor.idle_timeout_s, in ticks
IdleTimeout == 2
\* non-terminal response lines the controller may send before a terminal one
MaxInfoLines == 2
\* longest status line the status parser is tried on
MaxStatusLen == 5
\* calls of run_file made on one executor (RerunSpec)
MaxRuns == 2
\* lines the controller may have sent before the serial input is drained
MaxBanner == 2

(* ------------------------------- text --------------------------------- *)
UpperCase == <<"A","B","C","D","E","F","G","H","I","J","K","L","M",
               "N","O","P","Q","R","S","T","U","V","W","X","Y","Z">>
LowerCase == <<"a","b","c","d","e","f","g","h","i","j","k","l","m",
               "n","o","p","q","r","s","t","u","v","w","x","y","z">>
Digits == <<"0","1","2","3","4","5","6","7","8","9">>

\* str.lower() on one letter
LowerCh(c) ==
  IF \E i \in 1..Len(UpperCase) : UpperCase[i] = c
  THEN LowerCase[CHOOSE i \in 1..Len(UpperCase) : UpperCase[i] = c]
  ELSE c

\* str.lower()
Lower(s) == [i \in 1..Len(s) |-> LowerCh(s[i])]

\* the characters str.strip() and the regex class \s remove
IsSpace(c) == c \in {" ", "\t", "\n", "\r"}

IsDigit(c) == \E i \in 1..Len(Digits) : Digits[i] = c

DigitVal(c) == (CHOOSE i \in 1..Len(Digits) : Digits[i] = c) - 1

\* s[i..j] (1-based, inclusive), empty when j < i
Slice(s, i, j) == IF j < i THEN <<>> ELSE SubSeq(s, i, j)

\* str.startswith
StartsWith(s, p) == Len(s) >= Len(p) /\ SubSeq(s, 1, Len(p)) = p

\* str.endswith
EndsWith(s, p) ==
  Len(s) >= Len(p) /\ SubSeq(s, Len(s) - Len(p) + 1, Len(s)) = p

\* str.strip()
Strip(s) ==
  LET keep == {i \in 1..Len(s) : ~IsSpace(s[i])}
  IN IF keep = {} THEN <<>>
     ELSE Slice(s, CHOOSE i \in keep : \A k \in keep : i <= k,
                   CHOOSE j \in keep : \A k \in keep : k <= j)

\* GcodeExecutor._strip_comment: drop everything from the first ';', strip
_strip_comment(line) ==
  LET semi == {i \in 1..Len(line) : line[i] = ";"}
  IN IF semi = {} THEN Strip(line)
     ELSE Strip(Slice(line, 1, (CHOOSE i \in semi : \A k \in semi : i <= k) - 1))

\* first index >= i of s that holds no white space (Len(s)+1 when none)
SkipSpaces(s, i) ==
  LET stop == {k \in i..Len(s) : ~IsSpace(s[k])}
  IN IF stop = {} THEN Len(s) + 1 ELSE CHOOSE k \in stop : \A j \in stop : k <= j

IsNumCh(c) == IsDigit(c) \/ c = "."
IsNameCh(c) == c # "\"" /\ ~IsSpace(c)

\* first index >= i of s that is not in [0-9\.] (Len(s)+1 when none)
NumEnd(s, i) ==
  LET stop == {k \in i..Len(s) : ~IsNumCh(s[k])}
  IN IF stop = {} THEN Len(s) + 1 ELSE CHOOSE k \in stop : \A j \in stop : k <= j

\* first index >= i of s that is not in [^\"\s] (Len(s)+1 when none)
NameEnd(s, i) ==
  LET stop == {k \in i..Len(s) : ~IsNameCh(s[k])}
  IN IF stop = {} THEN Len(s) + 1 ELSE CHOOSE k \in stop : \A j \in stop : k <= j

NoMatch == <<"no match">>

\* ^<word>\s+<letter>([0-9\.]+)\s*$ with re.IGNORECASE: group 1 or NoMatch
MatchWordNum(line, word, letter) ==
  LET n  == Len(word)
      a  == SkipSpaces(line, n + 1)
      b  == NumEnd(line, a + 1)
  IN IF /\ StartsWith(Lower(line), word)
        /\ a > n + 1
        /\ a <= Len(line)
        /\ LowerCh(line[a]) = letter
        /\ b > a + 1
        /\ SkipSpaces(line, b) = Len(line) + 1
     THEN <<Slice(line, a + 1, b - 1)>>
     ELSE NoMatch

\* _RE_M106 = ^M106\s+S([0-9\.]+)\s*$
_RE_M106(line) == MatchWordNum(line, <<"m","1","0","6">>, "s")

\* _RE_G4P = ^G4\s+P([0-9\.]+)\s*$
_RE_G4P(line) == MatchWordNum(line, <<"g","4">>, "p")

\* _RE_M6054 = ^M6054\s+\"?([^\"\s]+)\"?\s*$
_RE_M6054(line) ==
  LET word == <<"m","6","0","5","4">>
      n  == Len(word)
      a  == SkipSpaces(line, n + 1)
      a2 == IF a <= Len(line) /\ line[a] = "\"" THEN a + 1 ELSE a
      b  == NameEnd(line, a2)
      b2 == IF b <= Len(line) /\ line[b] = "\"" THEN b + 1 ELSE b
  IN IF /\ StartsWith(Lower(line), word)
        /\ a > n + 1
        /\ b > a2
        /\ SkipSpaces(line, b2) = Len(line) + 1
     THEN <<Slice(line, a2, b - 1)>>
     ELSE NoMatch

ValueError == -1

RECURSIVE DigitsValue(_)
DigitsValue(s) ==
  IF s = <<>> THEN 0
  ELSE 10 * DigitsValue(Slice(s, 1, Len(s) - 1)) + DigitVal(s[Len(s)])

\* float(text) for text in [0-9.]+, in thousandths (three decimals kept);
\* ValueError for more than one '.' or no digit at all
float(text) ==
  LET dots == {i \in 1..Len(text) : text[i] = "."}
      d    == IF dots = {} THEN Len(text) + 1 ELSE CHOOSE i \in dots : TRUE
      int  == Slice(text, 1, d - 1)
      frac == Slice(text, d + 1, Len(text))
      f3   == Slice(frac \o <<"0","0","0">>, 1, 3)
  IN IF Cardinality(dots) > 1 \/ (int = <<>> /\ frac = <<>>)
     THEN ValueError
     ELSE 1000 * DigitsValue(int) + DigitsValue(f3)

(* --------------------------- program text ----------------------------- *)
\* raw lines a G-code file may hold (without the line feed)
L_blank   == <<>>
L_comment == <<" ",";","c">>
L_move    == <<"G","1"," ","Z","1",";","u">>
L_select  == <<"M","6","0","5","4"," ","7">>
L_selectQ == <<"m","6","0","5","4"," ","\"","8",".","P","N","G","\"">>
L_on      == <<"M","1","0","6"," ","S","2","5","5">>
L_off     == <<"M","1","0","6"," ","S","0">>
L_dwell   == <<"G","4"," ","P","5">>
L_badnum  == <<"m","1","0","6"," ","s",".">>

FileLines ==
  {L_blank, L_comment, L_move, L_select, L_selectQ, L_on, L_off, L_dwell, L_badnum}

\* lines the controller may answer a '?' with
StatusLines ==
  {<<"<","I","d","l","e","|",">">>, <<"<","R","u","n","|",">">>,
   <<"<","A","l","a","r","m","|",">">>, <<"<","I","d","l","e",">">>}

\* lines the controller may answer a command with
AckLines ==
  {<<"o","k">>, <<"O","K">>, <<"e","r","r","o","r",":","9">>,
   <<"A","L","A","R","M",":","1">>, <<"[","m","]">>}

\* no complete line arrives before the read deadline
NoLine == <<"no line">>

\* GcodeExecutor.image_dir
image_dir == <<"/","d">>

\* Settings.PRE_EXPOSURE_BLACK_DELAY_S / POST_EXPOSURE_BLACK_DELAY_S choices, ms
DelayChoices == {0, 1000}

\* GcodeExecutor.idle_poll_s, in ticks
PollTicks == 1

\* the deadline get_status gives _readline, in ticks
StatusReadTimeout == 2

\* the deadline send_line_wait_ok gives each _readline, in ticks
AckReadTimeout == 10

\* Settings.SERIAL_TIMEOUT_S: how long one ser.read(1) may block, in ticks
SerialTimeout == 1

\* when a response line is complete, in ticks after the _readline that reads
\* it was entered: at once, at the deadline, one blocking read later, too late
Arrivals(timeout_s) ==
  {0, timeout_s, timeout_s + SerialTimeout, timeout_s + SerialTimeout + 1}

(* ------------------------------ state --------------------------------- *)
VARIABLES
  cfg,    \* the settings both runs share: [pre, post] dark delays in ms,
          \* idle the timeout of wait_until_idle in ticks
  nread,  \* lines of the G-code file drawn so far
  raw,    \* the line of the file being processed
  tally,  \* history: what the lines drawn so far were
  ex,     \* per run: the executor, its serial client and its devices
  probe   \* the last call made on its own: [fn, arg, out, out_png]

vars == <<cfg, nread, raw, tally, ex, probe>>

Modes == {"live", "dry"}

\* GcodeExecutor.dry_run of the run m
dry_run(m) == m = "dry"

\* current_image before any M6054
None == <<"None">>

\* RunStats()
RunStats ==
  [gcode_lines_total |-> 0, gcode_lines_sent_grbl |-> 0, dwell_count |-> 0,
   exposure_on_count |-> 0, exposure_off_count |-> 0, image_select_count |-> 0]

\* a call of the handler with its argument (a duration in ms, else 0)
Call(op) == <<op, 0>>
Hold(ms) == <<"display.sleep_with_pump", ms>>

\* nothing is known of how the serial port was opened
NoOpening == [reset_on_open |-> FALSE, log |-> <<>>, arrived |-> 0, discarded |-> 0]

\* run_print.main before GrblClient is constructed ("new"), with what
\* GcodeExecutor.__init__, DlpProjector after projector.off() and HdmiDisplay
\* after display.black() will hold once it is; rx is what the controller has
\* sent and the client has not read
NewExecutor ==
  [pc |-> "new", rx |-> <<>>, opening |-> NoOpening, todo |-> <<>>, calls |-> <<>>, err |-> "",
   current_image |-> None, _exposure_active |-> FALSE, stats |-> RunStats,
   elapsed |-> 0, polls |-> 0, sleeps |-> 0, first |-> <<>>, last |-> <<>>,
   ninfo |-> 0, tx |-> <<>>, got |-> <<>>, st_raw |-> <<>>, err_args |-> <<>>,
   ret |-> <<>>, read_d |-> 0, stats_at_read |-> RunStats,
   led |-> "off", screen |-> <<"black">>, led_at_read |-> "off",
   slices |-> <<>>, pumped |-> 0, wire |-> <<>>,
   at_read |-> [current_image |-> None, _exposure_active |-> FALSE,
                screen |-> <<"black">>]]

\* main with GRBL_IDLE_TIMEOUT_S one of the timeouts idle
InitWith(idle) ==
  /\ cfg \in [pre : DelayChoices, post : DelayChoices, idle : idle]
  /\ nread = 0
  /\ raw = <<>>
  /\ tally = [nonblank |-> 0, begin |-> 0, cur |-> "none", class |-> "none",
              selected |-> FALSE, lastexp |-> "none", moves |-> <<>>,
              run |-> 1]
  /\ ex = [m \in Modes |-> NewExecutor]
  /\ probe = [fn |-> "none", arg |-> <<>>, out |-> <<>>, out_png |-> <<>>]

Init == InitWith({IdleTimeout})

(* ------------------------- GcodeExecutor ------------------------------ *)
\* the extensions _handle_m6054 takes as given
ImageExts == {<<".","p","n","g">>, <<".","b","m","p">>, <<".","j","p","g">>,
              <<".","j","p","e","g">>}

\* os.path.join(a, b) on POSIX: an absolute b stands alone
join(a, b) ==
  IF StartsWith(b, <<"/">>) THEN b
  ELSE IF a = <<>> \/ EndsWith(a, <<"/">>) THEN a \o b
  ELSE a \o <<"/">> \o b

\* slip: the extension is compared as written, not lower-cased
ImagePath_CaseSensitive(name) ==
  LET full == IF \E e \in ImageExts : EndsWith(name, e)
              THEN name ELSE name \o <<".","p","n","g">>
  IN join(image_dir, full)

\* _handle_m6054: the path current_image is set to
ImagePath(name) ==
  LET full == IF \E e \in ImageExts : EndsWith(Lower(name), e)
              THEN name ELSE name \o <<".","p","n","g">>
  IN join(image_dir, full)

\* slip: the exposure starts without waiting for the motion to end
BeginExposureCalls_NoWait(pre) ==
  <<Call("projector.off"), Call("display.black")>>
  \o (IF pre > 0 THEN <<Hold(pre)>> ELSE <<>>)
  \o <<Call("display.show"), Call("projector.on")>>

\* slip: the light is switched on before the image is shown
BeginExposureCalls_LightFirst(pre) ==
  <<Call("grbl.wait_until_idle"), Call("projector.off"), Call("display.black")>>
  \o (IF pre > 0 THEN <<Hold(pre)>> ELSE <<>>)
  \o <<Call("projector.on"), Call("display.show")>>

\* _handle_m106, S >= 1, live: the calls after the image check, in order
BeginExposureCalls(pre) ==
  <<Call("grbl.wait_until_idle"), Call("projector.off"), Call("display.black")>>
  \o (IF pre > 0 THEN <<Hold(pre)>> ELSE <<>>)
  \o <<Call("display.show"), Call("projector.on")>>

\* slip: the dark delay is applied to every M106 S0
EndExposureCalls_AlwaysHold(was_active, post) ==
  <<Call("projector.off"), Call("display.black")>>
  \o (IF post > 0 THEN <<Hold(post)>> ELSE <<>>)

\* slip: the display is blanked before the projector is switched off
EndExposureCalls_BlackFirst(was_active, post) ==
  <<Call("display.black"), Call("projector.off")>>
  \o (IF was_active /\ post > 0 THEN <<Hold(post)>> ELSE <<>>)

\* _handle_m106, S < 1, live: the calls, in order
EndExposureCalls(was_active, post) ==
  <<Call("projector.off"), Call("display.black")>>
  \o (IF was_active /\ post > 0 THEN <<Hold(post)>> ELSE <<>>)

\* which of the three local patterns the de-commented line matches, if any
LineClass(rawline) ==
  LET line == _strip_comment(rawline)
      hits == {k \in {"M6054", "M106", "G4"} :
                 \/ k = "M6054" /\ _RE_M6054(line) # NoMatch
                 \/ k = "M106" /\ _RE_M106(line) # NoMatch
                 \/ k = "G4" /\ _RE_G4P(line) # NoMatch}
  IN IF line = <<>> THEN "blank"
     ELSE IF hits = {} THEN "none"
     ELSE IF Cardinality(hits) = 1 THEN CHOOSE k \in hits : TRUE
     ELSE "several"

\* slip: G4 is left to the controller, which knows the command
Kind_DwellForwarded(rawline) ==
  LET line == _strip_comment(rawline)
  IN IF line = <<>> THEN "blank"
     ELSE IF _RE_M6054(line) # NoMatch THEN "M6054"
     ELSE IF _RE_M106(line) # NoMatch THEN "M106"
     ELSE "grbl"

\* run_file: which handler takes the raw line (first match wins)
Kind(rawline) ==
  LET line == _strip_comment(rawline)
  IN IF line = <<>> THEN "blank"
     ELSE IF _RE_M6054(line) # NoMatch THEN "M6054"
     ELSE IF _RE_M106(line) # NoMatch THEN "M106"
     ELSE IF _RE_G4P(line) # NoMatch THEN "G4"
     ELSE "grbl"

\* s_val of _handle_m106, in thousandths
Level(rawline) == float(_RE_M106(_strip_comment(rawline))[1])

\* _handle_m106: s_val >= 1.0 begins an exposure, a smaller one ends it
IsBegin(rawline) ==
  Kind(rawline) = "M106" /\ Level(rawline) # ValueError /\ Level(rawline) >= 1000
IsEnd(rawline) ==
  Kind(rawline) = "M106" /\ Level(rawline) # ValueError /\ Level(rawline) < 1000

\* Kind, worked out once for every line the file may hold
KindOf == [line \in FileLines |-> Kind(line)]

\* history: begin (M106 S>=1), end (M106 S<1), else the handler's name
CurOf ==
  [line \in FileLines |-> IF IsBegin(line) THEN "begin"
                          ELSE IF IsEnd(line) THEN "end" ELSE Kind(line)]

\* LineClass, worked out once for every line the file may hold
ClassOf == [line \in FileLines |-> LineClass(line)]

\* the for-loop of run_file goes on to the next line
NextLine(e) == [e EXCEPT !.pc = "read", !.todo = <<>>]

\* slip: the error is swallowed and the loop goes on with the next line
Raise_Swallowed(e, error) == [e EXCEPT !.pc = "read", !.todo = <<>>, !.err = error]

\* an exception leaves run_file and, nothing catching it, run_print.main
Raise(e, error) == [e EXCEPT !.pc = "failed", !.err = error]

\* an exception whose message carries the texts args
RaiseWith(e, error, args) == [Raise(e, error) EXCEPT !.err_args = args]

\* slip: the dry run makes the calls too
Start_AlwaysLive(m, e, todo) ==
  IF todo = <<>> THEN NextLine(e)
  ELSE [e EXCEPT !.pc = "busy", !.todo = todo]

\* a handler starts its calls (live) or only logs them (dry run)
Start(m, e, todo) ==
  IF dry_run(m) \/ todo = <<>> THEN NextLine(e)
  ELSE [e EXCEPT !.pc = "busy", !.todo = todo]

\* the two runs share nothing: the dry run takes each line first
Turn(m) == ex[m].pc = "line" /\ (dry_run(m) \/ ex["dry"].pc # "line")

\* run_file counts the raw line
Counted(e) ==
  [e EXCEPT !.stats.gcode_lines_total = @ + 1]

\* for raw in f: both runs read the next line of the file
ReadLine(line) ==
  /\ nread < MaxLines
  /\ \A m \in Modes : ex[m].pc = "read"
  /\ raw' = line
  /\ nread' = nread + 1
  /\ tally' = [nonblank |-> tally.nonblank + (IF KindOf[line] = "blank" THEN 0 ELSE 1),
               begin    |-> tally.begin + (IF CurOf[line] = "begin" THEN 1 ELSE 0),
               cur      |-> CurOf[line],
               class    |-> ClassOf[line],
               selected |-> tally.selected \/ KindOf[line] = "M6054",
               lastexp  |-> IF CurOf[line] \in {"begin", "end"}
                            THEN CurOf[line] ELSE tally.lastexp,
               moves    |-> IF KindOf[line] = "grbl"
                            THEN Append(tally.moves, line) ELSE tally.moves,
               run      |-> tally.run]
  /\ ex' = [m \in Modes |->
       [ex[m] EXCEPT !.pc = "line", !.calls = <<>>, !.polls = 0, !.sleeps = 0,
                     !.first = <<>>, !.last = <<>>, !.ninfo = 0,
                     !.tx = <<>>, !.got = <<>>, !.st_raw = <<>>, !.ret = <<>>,
                     !.elapsed = 0, !.read_d = 0, !.slices = <<>>, !.pumped = 0,
                     !.opening = NoOpening,
                     !.stats_at_read = ex[m].stats,
                     !.at_read = [current_image |-> ex[m].current_image,
                                  _exposure_active |-> ex[m]._exposure_active,
                                  screen |-> ex[m].screen],
                     !.led_at_read = ex[m].led]]
  /\ UNCHANGED <<cfg, probe>>

\* the file is exhausted: run_file returns self.stats
EndOfFile ==
  /\ \A m \in Modes : ex[m].pc = "read"
  /\ ex' = [m \in Modes |-> [ex[m] EXCEPT !.pc = "done"]]
  /\ UNCHANGED <<cfg, nread, raw, tally, probe>>

\* run_file: a line that is empty after _strip_comment is skipped
SkipLine(m) ==
  /\ Turn(m)
  /\ KindOf[raw] = "blank"
  /\ ex' = [ex EXCEPT ![m] = NextLine(Counted(@))]
  /\ UNCHANGED <<cfg, nread, raw, tally, probe>>

_handle_m6054(m) ==
  LET name == _RE_M6054(_strip_comment(raw))[1]
  IN /\ Turn(m)
     /\ KindOf[raw] = "M6054"
     /\ ex' = [ex EXCEPT ![m] =
          NextLine([Counted(@) EXCEPT !.current_image = ImagePath(name),
                                      !.stats.image_select_count = @ + 1])]
     /\ UNCHANGED <<cfg, nread, raw, tally, probe>>

\* slip: the image check is left out
BeginExposure_NoCheck(m, e) ==
  Start(m, [e EXCEPT !.stats.exposure_on_count = @ + 1],
        BeginExposureCalls(cfg.pre))

\* slip: the attempt is counted only after the image check
BeginExposure_CountLate(m, e) ==
  IF e.current_image = None THEN Raise(e, "NoImageSelected")
  ELSE Start(m, [e EXCEPT !.stats.exposure_on_count = @ + 1],
             BeginExposureCalls(cfg.pre))

\* slip: a begin is ignored while the projector is lit by an earlier one
BeginExposure_OnceOnly(m, e) ==
  LET on == [e EXCEPT !.stats.exposure_on_count = @ + 1]
  IN IF e.current_image = None THEN Raise(on, "NoImageSelected")
     ELSE IF e.led = "on" THEN NextLine(on)
     ELSE Start(m, on, BeginExposureCalls(cfg.pre))

\* slip: the flag is set when the begin is taken up, not when it is through
BeginExposure_FlagFirst(m, e) ==
  LET on == [e EXCEPT !.stats.exposure_on_count = @ + 1,
                      !._exposure_active = TRUE]
  IN IF e.current_image = None THEN Raise(on, "NoImageSelected")
     ELSE Start(m, on, BeginExposureCalls(cfg.pre))

\* _handle_m106, S >= 1: count, require an image, then the calls
BeginExposure(m, e) ==
  LET on == [e EXCEPT !.stats.exposure_on_count = @ + 1]
  IN IF e.current_image = None THEN Raise(on, "NoImageSelected")
     ELSE Start(m, on, BeginExposureCalls(cfg.pre))

\* slip: the end of an exposure asks for a selected image as the begin does
EndExposure_NeedsImage(m, e) ==
  LET off == [e EXCEPT !.stats.exposure_off_count = @ + 1,
                       !._exposure_active = FALSE]
  IN IF e.current_image = None THEN Raise(off, "NoImageSelected")
     ELSE Start(m, off, EndExposureCalls(e._exposure_active, cfg.post))

\* _handle_m106, S < 1: count, clear the flag, then the calls
EndExposure(m, e) ==
  LET was_active == e._exposure_active
      off == [e EXCEPT !.stats.exposure_off_count = @ + 1,
                       !._exposure_active = FALSE]
  IN Start(m, off, EndExposureCalls(was_active, cfg.post))

_handle_m106(m) ==
  LET e == Counted(ex[m])
  IN /\ Turn(m)
     /\ KindOf[raw] = "M106"
     /\ ex' = [ex EXCEPT ![m] =
          IF Level(raw) = ValueError THEN Raise(e, "ValueError")
          ELSE IF Level(raw) >= 1000 THEN BeginExposure(m, e)
          ELSE EndExposure(m, e)]
     /\ UNCHANGED <<cfg, nread, raw, tally, probe>>

\* slip: the wait is cut down to whole seconds
sec_ms_WholeSeconds(ms) == (ms \div 1000000) * 1000

\* sec = ms / 1000.0 of _handle_g4, as the ms sleep_with_pump is to wait
\* (float keeps thousandths)
sec_ms(ms) == ms \div 1000

_handle_g4(m) ==
  LET ms == float(_RE_G4P(_strip_comment(raw))[1])
      e  == Counted(ex[m])
  IN /\ Turn(m)
     /\ KindOf[raw] = "G4"
     /\ ex' = [ex EXCEPT ![m] =
          IF ms = ValueError THEN Raise(e, "ValueError")
          ELSE Start(m, [e EXCEPT !.stats.dwell_count = @ + 1],
                     <<Hold(sec_ms(ms))>>)]
     /\ UNCHANGED <<cfg, nread, raw, tally, probe>>

\* write_line: what goes out on the serial line
write_line(line) == Strip(line) \o <<"\n">>

\* slip: the command is counted when it is written, as an attempt
_send_to_grbl_CountsFirst(m) ==
  LET e     == Counted(ex[m])
      clean == Strip(_strip_comment(raw))
  IN /\ Turn(m)
     /\ KindOf[raw] = "grbl"
     /\ ex' = [ex EXCEPT ![m] =
          Start(m, IF dry_run(m) THEN e
                   ELSE [e EXCEPT !.calls = Append(@, Call("grbl.write_line")),
                                  !.tx = Append(@, write_line(clean)),
                                  !.wire = Append(@, write_line(clean)),
                                  !.stats.gcode_lines_sent_grbl = @ + 1],
                <<Call("grbl._readline")>>)]
     /\ UNCHANGED <<cfg, nread, raw, tally, probe>>

\* slip: the line is written and the loop goes on without reading the answer
_send_to_grbl_NoWait(m) ==
  LET e     == Counted(ex[m])
      clean == Strip(_strip_comment(raw))
  IN /\ Turn(m)
     /\ KindOf[raw] = "grbl"
     /\ ex' = [ex EXCEPT ![m] =
          NextLine(IF dry_run(m) THEN e
                   ELSE [e EXCEPT !.calls = Append(@, Call("grbl.write_line")),
                                  !.tx = Append(@, write_line(clean)),
                                  !.wire = Append(@, write_line(clean)),
                                  !.stats.gcode_lines_sent_grbl = @ + 1])]
     /\ UNCHANGED <<cfg, nread, raw, tally, probe>>

\* _send_to_grbl: a dry run returns before the counter; a live run writes the
\* line once (send_line_wait_ok: clean = line.strip(), write_line(clean)) and
\* then reads the answer; wire keeps what the run has written so far
_send_to_grbl(m) ==
  LET e     == Counted(ex[m])
      clean == Strip(_strip_comment(raw))
  IN /\ Turn(m)
     /\ KindOf[raw] = "grbl"
     /\ ex' = [ex EXCEPT ![m] =
          Start(m, IF dry_run(m) THEN e
                   ELSE [e EXCEPT !.calls = Append(@, Call("grbl.write_line")),
                                  !.tx = Append(@, write_line(clean)),
                                  !.wire = Append(@, write_line(clean))],
                <<Call("grbl._readline")>>)]
     /\ UNCHANGED <<cfg, nread, raw, tally, probe>>

(* --------------------------- GrblClient ------------------------------- *)
\* GrblStatus.state when the line does not parse
NoState == <<"None">>

S_Idle == <<"I","d","l","e">>
S_Alarm == <<"A","l","a","r","m">>

\* slip: the state is cut at the last '|' (rsplit), not the first
ParseState_LastBar(line) ==
  LET bars == {i \in 1..Len(line) : line[i] = "|"}
  IN IF StartsWith(line, <<"<">>) /\ bars # {}
     THEN Slice(line, 2, (CHOOSE i \in bars : \A k \in bars : i >= k) - 1)
     ELSE NoState

\* get_status: the text between the leading '<' and the first '|'
ParseState(line) ==
  LET bars == {i \in 1..Len(line) : line[i] = "|"}
  IN IF StartsWith(line, <<"<">>) /\ bars # {}
     THEN Slice(line, 2, (CHOOSE i \in bars : \A k \in bars : i <= k) - 1)
     ELSE NoState

\* slip: the deadline is looked at before the state
WaitOutcome_DeadlineFirst(state, elapsed) ==
  IF elapsed > cfg.idle THEN "AwaitIdleTimeout"
  ELSE IF state = S_Idle THEN "return"
  ELSE IF state = S_Alarm THEN "ControllerAlarm"
  ELSE "sleep"

\* slip: Alarm is waited out like Run or Hold
WaitOutcome_AlarmWaits(state, elapsed) ==
  IF state = S_Idle THEN "return"
  ELSE IF elapsed > cfg.idle THEN "AwaitIdleTimeout"
  ELSE "sleep"

\* slip: the wait gives up when the deadline is reached, not when it is passed
WaitOutcome_GivesUpEarly(state, elapsed) ==
  IF state = S_Idle THEN "return"
  ELSE IF state = S_Alarm THEN "ControllerAlarm"
  ELSE IF elapsed >= cfg.idle THEN "AwaitIdleTimeout"
  ELSE "sleep"

\* wait_until_idle after one get_status: state reported, ticks since t0;
\* cfg.idle is the timeout_s it was called with (GcodeExecutor.idle_timeout_s)
WaitOutcome(state, elapsed) ==
  IF state = S_Idle THEN "return"
  ELSE IF state = S_Alarm THEN "ControllerAlarm"
  ELSE IF elapsed > cfg.idle THEN "AwaitIdleTimeout"
  ELSE "sleep"

\* slip: only a lower-case 'ok' ends the call
AckOutcome_CaseSensitive(resp) ==
  IF resp = <<"o","k">> THEN "ok"
  ELSE IF StartsWith(Lower(resp), <<"e","r","r","o","r">>)
          \/ StartsWith(Lower(resp), <<"a","l","a","r","m">>)
  THEN "ControllerRejected"
  ELSE "more"

\* slip: a line beginning with 'alarm' is read over
AckOutcome_ErrorOnly(resp) ==
  IF Lower(resp) = <<"o","k">> THEN "ok"
  ELSE IF StartsWith(Lower(resp), <<"e","r","r","o","r">>)
  THEN "ControllerRejected"
  ELSE "more"

\* send_line_wait_ok on one response line
AckOutcome(resp) ==
  LET low == Lower(resp)
  IN IF low = <<"o","k">> THEN "ok"
     ELSE IF StartsWith(low, <<"e","r","r","o","r">>)
             \/ StartsWith(low, <<"a","l","a","r","m">>)
     THEN "ControllerRejected"
     ELSE "more"

\* _readline gave up
TimeoutError == <<"TimeoutError">>

\* slip: the loop has no deadline, a line is returned whenever it comes
_readline_NoDeadline(line, d, timeout_s) ==
  IF line = NoLine THEN {TimeoutError} ELSE {Strip(line)}

\* _readline(timeout_s) when the next complete line is there d ticks after the
\* call: the deadline is looked at before each ser.read(1), which blocks up to
\* SerialTimeout, so a line completed less than one blocking read after the
\* deadline is returned or not, depending on when the last read began
_readline(line, d, timeout_s) ==
  IF line = NoLine THEN {TimeoutError}
  ELSE IF d <= timeout_s THEN {Strip(line)}
  ELSE IF d <= timeout_s + SerialTimeout THEN {Strip(line), TimeoutError}
  ELSE {TimeoutError}

\* the line Grbl sends when it starts up
Banner == <<"G","r","b","l"," ","1",".","1","h">>

\* GrblClient.__init__: serial.Serial(...) opens the port, which restarts the
\* controller when reset_on_open says it does; time.sleep(2.0) in that case,
\* then drain()
Serial(reset_on_open) ==
  /\ \A m \in Modes : ex[m].pc = "new"
  /\ ex' = [m \in Modes |->
       [ex[m] EXCEPT !.pc = "opening",
                     !.opening.reset_on_open = reset_on_open,
                     !.todo = (IF reset_on_open THEN <<Call("time.sleep")>> ELSE <<>>)
                              \o <<Call("grbl.drain")>>]]
  /\ UNCHANGED <<cfg, nread, raw, tally, probe>>

\* the controller sends a line of its own accord while the port is being
\* opened: the start-up banner, or what was left unread
BannerArrives ==
  /\ \A m \in Modes : ex[m].pc = "opening" /\ Len(ex[m].rx) < MaxBanner
  /\ ex' = [m \in Modes |->
       [ex[m] EXCEPT !.rx = Append(@, Banner), !.opening.arrived = @ + 1]]
  /\ UNCHANGED <<cfg, nread, raw, tally, probe>>

\* time.sleep(2.0) of __init__ returns
settle ==
  /\ \A m \in Modes : ex[m].pc = "opening" /\ Head(ex[m].todo) = Call("time.sleep")
  /\ ex' = [m \in Modes |->
       [ex[m] EXCEPT !.todo = Tail(@), !.opening.log = Append(@, "time.sleep")]]
  /\ UNCHANGED <<cfg, nread, raw, tally, probe>>

\* slip: the input is left as it is
drained_Nothing(e) ==
  [e EXCEPT !.opening.log = Append(@, "grbl.drain")]

\* drain: while self.ser.in_waiting: self.ser.read(self.ser.in_waiting), the
\* bytes read are dropped
drained(e) ==
  [e EXCEPT !.rx = <<>>, !.opening.discarded = @ + Len(e.rx),
            !.opening.log = Append(@, "grbl.drain")]

\* self.drain() of __init__, after which main sets up the display, the
\* projector and the executor, and run_file opens the file
drain ==
  /\ \A m \in Modes : ex[m].pc = "opening" /\ Head(ex[m].todo) = Call("grbl.drain")
  /\ ex' = [m \in Modes |-> [drained(ex[m]) EXCEPT !.pc = "read", !.todo = <<>>]]
  /\ UNCHANGED <<cfg, nread, raw, tally, probe>>

\* ser.read(1) in _readline: what is buffered is read before what the
\* controller sends next, and is there at once
OnPort(e, line) == IF e.rx # <<>> THEN Head(e.rx) ELSE line
DelayOnPort(e, d) == IF e.rx # <<>> THEN 0 ELSE d
Taken(rx) == IF rx # <<>> THEN Tail(rx) ELSE rx

\* the handler's next call returned
Returned(e) ==
  IF Len(e.todo) = 1 THEN NextLine(e) ELSE [e EXCEPT !.todo = Tail(@)]

\* slip: a status read that times out counts as a status that does not parse
wait_until_idle_TimeoutUnknown(m, line, d) ==
  LET e    == ex[m]
      e1   == [e EXCEPT !.calls = IF e.polls = 0 THEN Append(@, Head(e.todo)) ELSE @,
                        !.polls = @ + 1,
                        !.tx = Append(@, write_line(<<"?">>)),
                        !.rx = Taken(@)]
  IN /\ e.pc = "busy"
     /\ Head(e.todo) = Call("grbl.wait_until_idle")
     /\ \E r \in _readline(OnPort(e, line), DelayOnPort(e, d), StatusReadTimeout) :
          LET st   == IF r = TimeoutError THEN NoState ELSE ParseState(r)
              t    == e.elapsed + DelayOnPort(e, d)
              e2   == [e1 EXCEPT !.first = IF e.polls = 0 THEN st ELSE @,
                                 !.last = st, !.st_raw = r,
                                 !.read_d = DelayOnPort(e, d)]
              what == WaitOutcome(st, t)
          IN ex' = [ex EXCEPT ![m] =
               IF what = "return"
               THEN Returned([e2 EXCEPT !.elapsed = 0, !.read_d = 0])
               ELSE IF what = "sleep"
               THEN [e2 EXCEPT !.sleeps = @ + 1, !.elapsed = t + PollTicks]
               ELSE RaiseWith([e2 EXCEPT !.elapsed = t], what, <<r>>)]
     /\ UNCHANGED <<cfg, nread, raw, tally, probe>>

\* one round of the loop of wait_until_idle (t0 is taken on entry): get_status
\* writes '?', reads one line with _readline(2.0) (complete after d ticks, or
\* never), then Idle returns, Alarm and the elapsed timeout raise with the raw
\* status, anything else sleeps poll_s; read_d is the time the last status
\* line took, kept while the wait goes on or has failed
wait_until_idle(m, line, d) ==
  LET e    == ex[m]
      e1   == [e EXCEPT !.calls = IF e.polls = 0 THEN Append(@, Head(e.todo)) ELSE @,
                        !.polls = @ + 1,
                        !.tx = Append(@, write_line(<<"?">>)),
                        !.rx = Taken(@)]
  IN /\ e.pc = "busy"
     /\ Head(e.todo) = Call("grbl.wait_until_idle")
     /\ \E r \in _readline(OnPort(e, line), DelayOnPort(e, d), StatusReadTimeout) :
          LET st   == ParseState(r)
              t    == e.elapsed + DelayOnPort(e, d)
              e2   == [e1 EXCEPT !.first = IF e.polls = 0 THEN st ELSE @,
                                 !.last = st, !.st_raw = r,
                                 !.read_d = DelayOnPort(e, d)]
              late == IF OnPort(e, line) = NoLine
                      THEN StatusReadTimeout + SerialTimeout + 1
                      ELSE DelayOnPort(e, d)
              what == WaitOutcome(st, t)
          IN ex' = [ex EXCEPT ![m] =
               IF r = TimeoutError
               THEN Raise([e1 EXCEPT !.read_d = late], "ReadTimeout")
               ELSE IF what = "return"
               THEN Returned([e2 EXCEPT !.elapsed = 0, !.read_d = 0])
               ELSE IF what = "sleep"
               THEN [e2 EXCEPT !.sleeps = @ + 1, !.elapsed = t + PollTicks]
               ELSE RaiseWith([e2 EXCEPT !.elapsed = t], what, <<r>>)]
     /\ UNCHANGED <<cfg, nread, raw, tally, probe>>

\* what a device call that returns leaves behind; exposure.start_exposure
\* returns without drawing when the image cannot be loaded
Effect(e, op, loaded) ==
  IF op = "projector.on" THEN [e EXCEPT !.led = "on"]
  ELSE IF op = "projector.off" THEN [e EXCEPT !.led = "off"]
  ELSE IF op = "display.black" THEN [e EXCEPT !.screen = <<"black">>]
  ELSE IF op = "display.show" /\ loaded THEN [e EXCEPT !.screen = e.current_image]
  ELSE e

\* projector.on/off, display.black/show: the call returns or raises (I2C
\* error, pygame error)
DeviceCall(m, ok, loaded) ==
  LET e  == ex[m]
      c  == Head(e.todo)
      e1 == [e EXCEPT !.calls = Append(@, c)]
  IN /\ e.pc = "busy"
     /\ c[1] \in {"projector.on", "projector.off", "display.black", "display.show"}
     /\ ex' = [ex EXCEPT ![m] =
          IF ok THEN Returned(Effect(e1, c[1], loaded))
          ELSE Raise(e1, "DeviceError")]
     /\ UNCHANGED <<cfg, nread, raw, tally, probe>>

\* Settings.EVENT_PUMP_HZ, and the period 1.0 / event_pump_hz in microseconds
event_pump_hz == 30
period == 1000000 \div event_pump_hz

\* the loop of sleep_with_pump with left microseconds to go: the lengths of
\* the time.sleep(min(period, t_end - now)) it makes, a sleep taking the time
\* it was asked for
RECURSIVE SleepSlices(_)
SleepSlices(left) ==
  IF left <= 0 THEN <<>>
  ELSE LET nap == IF period < left THEN period ELSE left
       IN <<nap>> \o SleepSlices(left - nap)

\* display.sleep_with_pump(seconds): nothing for seconds <= 0, else it sleeps
\* slice by slice until t_end and returns; _process_events is not called
\* between the slices, so pumped stays as it is
sleep_with_pump(m) ==
  LET e  == ex[m]
      c  == Head(e.todo)
  IN /\ e.pc = "busy"
     /\ c[1] = "display.sleep_with_pump"
     /\ ex' = [ex EXCEPT ![m] =
          Returned([e EXCEPT !.calls = Append(@, c),
                             !.slices = @ \o SleepSlices(c[2] * 1000)])]
     /\ UNCHANGED <<cfg, nread, raw, tally, probe>>

\* slip: the loop gives up at the second line that is no answer
send_line_wait_ok_TwoLines(m, resp, d) ==
  LET e     == ex[m]
      e1    == [e EXCEPT !.calls = Append(@, Call("grbl._readline"))]
      clean == Strip(_strip_comment(raw))
  IN /\ e.pc = "busy"
     /\ Head(e.todo) = Call("grbl._readline")
     /\ resp \in AckLines /\ AckOutcome(resp) = "more" => e.ninfo < MaxInfoLines
     /\ \E r \in _readline(resp, d, AckReadTimeout) :
          LET what == AckOutcome(r)
              e2   == [e1 EXCEPT !.got = Append(@, r), !.read_d = d]
          IN ex' = [ex EXCEPT ![m] =
               IF r = TimeoutError THEN Raise(e1, "ReadTimeout")
               ELSE IF what = "ok"
               THEN Returned([e2 EXCEPT !.ret = r,
                                        !.stats.gcode_lines_sent_grbl = @ + 1])
               ELSE IF what = "more" /\ e.ninfo = 0 THEN [e2 EXCEPT !.ninfo = @ + 1]
               ELSE RaiseWith(e2, "ControllerRejected", <<r, clean>>)]
     /\ UNCHANGED <<cfg, nread, raw, tally, probe>>

\* the loop of send_line_wait_ok: one _readline(10.0) (the line is complete
\* after d ticks, or never), then 'ok' returns the line (and _send_to_grbl
\* counts the command), error/alarm raise with the line and the command,
\* anything else reads on; elapsed is the time since the write, capped, and
\* read_d the time the last line took (past every deadline if it never came)
send_line_wait_ok(m, resp, d) ==
  LET e     == ex[m]
      e1    == [e EXCEPT !.calls = Append(@, Call("grbl._readline")),
                         !.rx = Taken(@)]
      clean == Strip(_strip_comment(raw))
      line  == OnPort(e, resp)
      t     == DelayOnPort(e, d)
  IN /\ e.pc = "busy"
     /\ Head(e.todo) = Call("grbl._readline")
     /\ resp \in AckLines /\ AckOutcome(resp) = "more" => e.ninfo < MaxInfoLines
     /\ \E r \in _readline(line, t, AckReadTimeout) :
          LET what == AckOutcome(r)
              e2   == [e1 EXCEPT !.got = Append(@, r), !.read_d = t,
                                 !.elapsed = IF @ + t > AckReadTimeout
                                              THEN AckReadTimeout + 1 ELSE @ + t]
              late == IF line = NoLine THEN AckReadTimeout + SerialTimeout + 1
                      ELSE t
          IN ex' = [ex EXCEPT ![m] =
               IF r = TimeoutError
               THEN Raise([e1 EXCEPT !.read_d = late], "ReadTimeout")
               ELSE IF what = "ok"
               THEN Returned([e2 EXCEPT !.ret = r,
                                        !.stats.gcode_lines_sent_grbl = @ + 1])
               ELSE IF what = "more" THEN [e2 EXCEPT !.ninfo = @ + 1]
               ELSE RaiseWith(e2, what, <<r, clean>>)]
     /\ UNCHANGED <<cfg, nread, raw, tally, probe>>

\* run_print.main after run_file has returned, in both runs: projector.off(),
\* display.black(), then the display and the serial port are closed; a
\* projector.off() that raises (live run only: the dry run's projector is
\* disabled) ends main there ("crashed")
Cleanup(ok) ==
  /\ \A m \in Modes : ex[m].pc = "done"
  /\ ex' = [m \in Modes |->
       IF ok \/ dry_run(m)
       THEN [ex[m] EXCEPT !.pc = "exited", !.led = "off", !.screen = <<"black">>]
       ELSE [Raise(ex[m], "DeviceError") EXCEPT !.pc = "crashed"]]
  /\ UNCHANGED <<cfg, nread, raw, tally, probe>>

Next ==
  \/ \E reset_on_open \in BOOLEAN : Serial(reset_on_open)
  \/ BannerArrives
  \/ settle
  \/ drain
  \/ \E line \in FileLines : ReadLine(line)
  \/ EndOfFile
  \/ \E m \in Modes : SkipLine(m)
  \/ \E m \in Modes : _handle_m6054(m)
  \/ \E m \in Modes : _handle_m106(m)
  \/ \E m \in Modes : _handle_g4(m)
  \/ \E m \in Modes : _send_to_grbl(m)
  \/ \E m \in Modes, line \in StatusLines \cup {NoLine},
        d \in Arrivals(StatusReadTimeout) : wait_until_idle(m, line, d)
  \/ \E m \in Modes, ok \in BOOLEAN, loaded \in BOOLEAN : DeviceCall(m, ok, loaded)
  \/ \E m \in Modes : sleep_with_pump(m)
  \/ \E m \in Modes, resp \in AckLines \cup {NoLine},
        d \in Arrivals(AckReadTimeout) : send_line_wait_ok(m, resp, d)
  \/ \E ok \in BOOLEAN : Cleanup(ok)

Spec == Init /\ [][Next]_vars

\* run_file is called again on the executor whose run_file has returned: it
\* opens the file anew and replaces self.stats, and nothing else
RunAgain ==
  /\ tally.run < MaxRuns
  /\ \A m \in Modes : ex[m].pc = "done"
  /\ nread' = 0
  /\ raw' = <<>>
  /\ tally' = [nonblank |-> 0, begin |-> 0, cur |-> "none", class |-> "none",
               selected |-> FALSE, lastexp |-> tally.lastexp, moves |-> <<>>,
               run |-> tally.run + 1]
  /\ ex' = [m \in Modes |->
       [ex[m] EXCEPT !.pc = "read", !.stats = RunStats,
                     !.stats_at_read = RunStats, !.calls = <<>>, !.polls = 0,
                     !.sleeps = 0, !.first = <<>>, !.last = <<>>, !.ninfo = 0,
                     !.tx = <<>>, !.got = <<>>, !.st_raw = <<>>, !.ret = <<>>,
                     !.elapsed = 0, !.read_d = 0, !.slices = <<>>, !.pumped = 0,
                     !.wire = <<>>, !.opening = NoOpening,
                     !.led_at_read = ex[m].led,
                     !.at_read = [current_image |-> ex[m].current_image,
                                  _exposure_active |-> ex[m]._exposure_active,
                                  screen |-> ex[m].screen]]]
  /\ UNCHANGED <<cfg, probe>>

RerunNext == Next \/ RunAgain

\* the program with executors that are used for more than one run
RerunSpec == Init /\ [][RerunNext]_vars

\* a round of wait_until_idle always ends: the status read returns or gives up
\* within its own deadline, and time.sleep(poll_s) returns
FairSpec ==
  Spec /\ WF_vars(\E line \in StatusLines \cup {NoLine},
                     d \in Arrivals(StatusReadTimeout) :
                       wait_until_idle("live", line, d))

\* a round of send_line_wait_ok always ends: _readline returns a line or gives
\* up within its own deadline
AckFairSpec ==
  Spec /\ WF_vars(\E resp \in AckLines \cup {NoLine},
                     d \in Arrivals(AckReadTimeout) :
                       send_line_wait_ok("live", resp, d))

\* the program run with GRBL_IDLE_TIMEOUT_S = 0
ZeroTimeoutSpec == InitWith({0}) /\ [][Next]_vars

(* ------------------- the parsers on their own -------------------------- *)
\* one call of get_status or of the M6054 handler, made on a fresh client
\* the status report the source quotes as typical
SampleStatus ==
  <<"<","I","d","l","e","|","M","P","o","s",":","0",".","0","0","0",",",
    "0",".","0","0","0",",","0",".","0","0","0","|","F","S",":","0",",","0",">">>

\* the lines get_status is tried on: every text of '<', '|' and a letter up
\* to MaxStatusLen, and the sample
ProbeStatusLines ==
  UNION {[1..n -> {"<", "|", "a"}] : n \in 0..MaxStatusLen} \cup {SampleStatus}

\* the names M6054 is tried on: a stem and an ending
NameStems == {<<"7">>, <<"/","7">>, <<"a",".","b">>, <<"s","/","7">>}
NameEndings ==
  {<<>>, <<".","p","n","g">>, <<".","P","N","G">>, <<".","b","m","p">>,
   <<".","J","p","g">>, <<".","j","p","e","g">>, <<".","g","i","f">>,
   <<"p","n","g">>, <<".","p","n","g",".">>, <<".","j","p","e">>}
ProbeNames == {stem \o ending : stem \in NameStems, ending \in NameEndings}

\* get_status once the line is read: GrblStatus(raw=line, state=state)
get_status(line) ==
  /\ probe.fn = "none"
  /\ probe' = [fn |-> "get_status", arg |-> line, out |-> ParseState(line),
               out_png |-> <<>>]
  /\ UNCHANGED <<cfg, nread, raw, tally, ex>>

\* M6054 name and M6054 name.png: the two paths current_image is set to
select_image(name) ==
  /\ probe.fn = "none"
  /\ probe' = [fn |-> "_handle_m6054", arg |-> name, out |-> ImagePath(name),
               out_png |-> ImagePath(name \o <<".","p","n","g">>)]
  /\ UNCHANGED <<cfg, nread, raw, tally, ex>>

ProbeNext ==
  \/ \E line \in ProbeStatusLines : get_status(line)
  \/ \E name \in ProbeNames : select_image(name)

ProbeSpec == Init /\ [][ProbeNext]_vars

(* ------------------------------ claims -------------------------------- *)
\* the line being processed (or just processed) is of this kind
CurIs(kind) == tally.cur = kind

Live == ex["live"]
Dry == ex["dry"]

\* the call op was made while the current line was processed
Has(e, op) == \E i \in 1..Len(e.calls) : e.calls[i][1] = op

\* the calls a complete begin-exposure makes, as section 4.2 lists them
BeginOrder ==
  IF cfg.pre > 0
  THEN <<Call("grbl.wait_until_idle"), Call("projector.off"), Call("display.black"),
         Hold(cfg.pre), Call("display.show"), Call("projector.on")>>
  ELSE <<Call("grbl.wait_until_idle"), Call("projector.off"), Call("display.black"),
         Call("display.show"), Call("projector.on")>>

IsPrefix(s, t) == Len(s) <= Len(t) /\ s = SubSeq(t, 1, Len(s))

\* wait_until_idle of the current line is still polling
Waiting(e) == e.pc = "busy" /\ Head(e.todo) = Call("grbl.wait_until_idle")

WaitErrors == {"ControllerAlarm", "AwaitIdleTimeout", "ReadTimeout"}

\* C1: in a live run projector.on() is called only in a begin-exposure line
\* (M106 S>=1) whose wait_until_idle has returned after a poll reporting Idle;
\* when wait_until_idle raises, none of projector.off, display.black,
\* display.show, projector.on is called for that line.
C1_OnOnlyAfterIdle ==
  /\ Has(Live, "projector.on") =>
       /\ CurIs("begin")
       /\ Live.calls[1] = Call("grbl.wait_until_idle")
       /\ Live.polls >= 1 /\ Live.last = S_Idle
  /\ CurIs("begin") /\ Live.pc = "failed" /\ Live.err \in WaitErrors =>
       /\ Live.calls = <<Call("grbl.wait_until_idle")>>
       /\ Live.led = Live.led_at_read

C1_Witness ==
  /\ Has(Live, "projector.on") /\ Live.polls >= 2 /\ Live.led = "on"

\* C2: a live begin-exposure line with an image selected makes its calls in
\* the order wait_until_idle, projector.off, display.black, the pre-exposure
\* hold (only when the delay is > 0), display.show(current_image),
\* projector.on; a call that raises is the last call of the line.
C2_BeginOrder ==
  CurIs("begin") /\ Live.pc # "line" /\ Live.current_image # None =>
    /\ IsPrefix(Live.calls, BeginOrder)
    /\ Live.pc \in {"read", "done"} => Live.calls = BeginOrder
    /\ Live.pc \in {"read", "done"} =>
         Live.led = "on" /\ Live.screen \in {Live.current_image, <<"black">>}
    /\ Live.pc = "busy" => Live.todo = SubSeq(BeginOrder, Len(Live.calls) +
         (IF Waiting(Live) /\ Live.polls > 0 THEN 0 ELSE 1), Len(BeginOrder))

C2_Witness ==
  /\ CurIs("begin") /\ cfg.pre > 0 /\ Live.pc = "read" /\ Live.calls = BeginOrder
  /\ Live.screen = Live.current_image

\* C3: a begin-exposure line processed while no image was ever selected raises
\* NoImageSelected and makes no device call: no status poll, no projector
\* on/off, no display black/show, no hold.
C3_NoImageNoCalls ==
  \A m \in Modes :
    CurIs("begin") /\ ex[m].pc # "line" /\ ex[m].current_image = None =>
      /\ ex[m].pc = "failed" /\ ex[m].err = "NoImageSelected"
      /\ ex[m].calls = <<>> /\ ex[m].polls = 0
      /\ ex[m].led = "off" /\ ex[m].screen = <<"black">>

C3_Witness ==
  Live.pc = "failed" /\ Live.err = "NoImageSelected" /\ nread >= 2

\* C4: after a begin-exposure line whose five steps all succeeded
\* _exposure_active is true (and stays so until the next end-exposure line).
C4_ActiveAfterBegin ==
  CurIs("begin") /\ Live.pc = "read" /\ Live.calls = BeginOrder =>
    Live._exposure_active = TRUE

\* C5: an end-exposure line that follows a successful begin-exposure with no
\* end-exposure in between holds black for the post-exposure delay after
\* projector.off and display.black, whenever that delay is positive.
C5_PostHoldAfterExposure ==
  CurIs("end") /\ Live.led_at_read = "on" /\ cfg.post > 0 /\ Live.pc = "read" =>
    Live.calls = <<Call("projector.off"), Call("display.black"), Hold(cfg.post)>>

\* C6: an end-exposure line with no successful begin-exposure since the start
\* of the run or since the previous end-exposure line makes projector.off and
\* display.black but no post-exposure hold, whatever the configured delay.
C6_NoHoldWithoutExposure ==
  CurIs("end") /\ Live.led_at_read = "off" /\ Live.pc # "line" =>
    /\ IsPrefix(Live.calls, <<Call("projector.off"), Call("display.black")>>)
    /\ Live.pc = "read" =>
         Live.calls = <<Call("projector.off"), Call("display.black")>>

C6_Witness ==
  /\ CurIs("end") /\ Live.led_at_read = "off" /\ cfg.post > 0 /\ Live.pc = "read"
  /\ Live.calls = <<Call("projector.off"), Call("display.black")>>

\* C7: a dry run and a live run of the same program in which every device
\* call succeeds end with identical RunStats.
C7_DryEqualsLive ==
  Dry.pc = "done" /\ Live.pc = "done" => Dry.stats = Live.stats

LocalAndSent(st) ==
  st.gcode_lines_sent_grbl + st.image_select_count + st.exposure_on_count
  + st.exposure_off_count + st.dwell_count

\* C8: when a run completes, the forwarded-line counter plus the
\* image-select, exposure-on, exposure-off and dwell counters equals the
\* number of lines that are non-blank after comment stripping.
C8_CountersCoverLines ==
  \A m \in Modes : ex[m].pc = "done" => LocalAndSent(ex[m].stats) = tally.nonblank

\* C9: the exposure-on counter counts every begin-exposure line processed,
\* also the lines that then fail with NoImageSelected or at a later step.
C9_OnCountsAttempts ==
  \A m \in Modes :
    ex[m].stats.exposure_on_count =
      tally.begin - (IF ex[m].pc = "line" /\ CurIs("begin") THEN 1 ELSE 0)

C9_Witness ==
  /\ CurIs("begin") /\ Live.pc = "failed" /\ Live.err = "DeviceError"
  /\ Has(Live, "display.show") /\ Live.stats.exposure_on_count = 1
  /\ Dry.stats.exposure_on_count = 1

\* C10: wait_until_idle returns normally as soon as a poll reports Idle; when
\* the first poll reports Idle it returns after exactly one status request,
\* with no sleep and no further poll.
C10_IdleReturnsAtOnce ==
  /\ Live.polls >= 1 /\ Live.last = S_Idle =>
       /\ ~Waiting(Live)
       /\ Live.err \notin WaitErrors
       /\ Live.sleeps = Live.polls - 1
  /\ Live.polls >= 1 /\ Live.first = S_Idle =>
       Live.polls = 1 /\ Live.sleeps = 0 /\ ~Waiting(Live)

C10_Witness ==
  /\ Live.first = S_Idle /\ Live.polls = 1 /\ Has(Live, "projector.off")

\* C11: wait_until_idle raises ControllerAlarm, carrying the raw status line,
\* at the first poll that reports Alarm, whether or not the timeout has
\* elapsed, and sends no further status request after it.
C11_AlarmRaisesAtOnce ==
  Live.polls >= 1 /\ Live.last = S_Alarm =>
    /\ Live.pc = "failed" /\ Live.err = "ControllerAlarm"
    /\ Live.err_args = <<Live.st_raw>>
    /\ Live.st_raw = <<"<","A","l","a","r","m","|",">">>
    /\ Live.first = S_Alarm => Live.polls = 1
    /\ Live.sleeps = Live.polls - 1
    /\ Len(Live.tx) = Live.polls

C11_Witness ==
  /\ Live.err = "ControllerAlarm" /\ Live.polls >= 2
  /\ Live.elapsed <= IdleTimeout

\* the wait has given up, or is still within its budget of rounds
C12_GivesUpAfterTimeout ==
  /\ Live.err = "AwaitIdleTimeout" =>
       /\ Live.pc = "failed"
       /\ Live.elapsed > IdleTimeout
       /\ Live.last \notin {S_Idle, S_Alarm}
       /\ Live.err_args = <<Live.st_raw>>
       /\ Live.sleeps = Live.polls - 1
  /\ Waiting(Live) =>
       /\ Live.sleeps = Live.polls
       /\ Live.polls * PollTicks <= Live.elapsed
       /\ Live.elapsed <= IdleTimeout + PollTicks
       /\ Live.polls >= 1 => Live.last \notin {S_Idle, S_Alarm}

\* C12: a wait_until_idle whose polls never report Idle or Alarm does not
\* poll forever: it sleeps poll_s after each such poll while the timeout
\* has not elapsed, and it ends, raising AwaitIdleTimeout with the last raw
\* status line only once more than the timeout has elapsed.
C12_WaitEnds ==
  /\ []C12_GivesUpAfterTimeout
  /\ Waiting(Live) ~> ~Waiting(Live)

C12_Witness ==
  /\ Live.err = "AwaitIdleTimeout" /\ Live.polls >= 2
  /\ Live.st_raw = <<"<","I","d","l","e",">">>

\* the current line went to the controller and was acknowledged
Acked(e) == e.pc \in {"read", "done", "exited", "crashed"}

\* a response line that is 'ok' in any letter case
OkLine(r) == Lower(r) = <<"o","k">>

\* a response line that begins with 'error' or 'alarm' in any letter case
Rejects(r) ==
  \/ StartsWith(Lower(r), <<"e","r","r","o","r">>)
  \/ StartsWith(Lower(r), <<"a","l","a","r","m">>)

\* the command send_line_wait_ok was given for the current line
Command == Strip(_strip_comment(raw))

\* one write of the command, then one _readline per line in reads
WriteThenReads(n) ==
  <<Call("grbl.write_line")>> \o [i \in 1..n |-> Call("grbl._readline")]

\* C13: for n >= 0 non-terminal response lines followed by 'ok' in any letter
\* case, send_line_wait_ok writes the command once, followed by one line
\* terminator, returns that 'ok' line and has then read exactly n+1 lines.
C13_OkEndsTheCall ==
  CurIs("grbl") /\ Live.pc # "line" =>
    /\ Live.tx = <<Command \o <<"\n">>>>
    /\ \A i \in 1..Len(Command) : Command[i] # "\n"
    /\ \A i \in 1..(Len(Live.got) - 1) :
         ~OkLine(Live.got[i]) /\ ~Rejects(Live.got[i])
    /\ Live.ninfo = Len(Live.got) - (IF Live.pc = "busy" THEN 0 ELSE 1)
         \/ Live.err = "ReadTimeout"
    /\ Live.got # <<>> /\ OkLine(Live.got[Len(Live.got)]) =>
         /\ Acked(Live)
         /\ Live.ret = Live.got[Len(Live.got)]
         /\ Live.calls = WriteThenReads(Live.ninfo + 1)
    /\ Acked(Live) => Live.got # <<>> /\ OkLine(Live.got[Len(Live.got)])

C13_Witness ==
  /\ CurIs("grbl") /\ Live.pc = "read" /\ Live.ninfo = 2
  /\ Live.ret = <<"O","K">> /\ Live.tx = <<<<"G","1"," ","Z","1","\n">>>>

\* C14: when the first terminal response begins with 'error' or 'alarm' in
\* any letter case, send_line_wait_ok raises ControllerRejected carrying that
\* response and the command; the command was written once, no line is read
\* after the rejecting one, and the forwarded-line counter is not advanced.
C14_RejectedRaises ==
  CurIs("grbl") /\ Live.got # <<>> /\ Rejects(Live.got[Len(Live.got)]) =>
    /\ Live.pc = "failed" /\ Live.err = "ControllerRejected"
    /\ Live.err_args = <<Live.got[Len(Live.got)], Command>>
    /\ Len(Live.tx) = 1
    /\ Live.calls = WriteThenReads(Len(Live.got))
    /\ Live.stats.gcode_lines_sent_grbl = Live.stats_at_read.gcode_lines_sent_grbl

C14_Witness ==
  /\ Live.err = "ControllerRejected" /\ Live.ninfo = 1
  /\ Live.err_args = <<<<"A","L","A","R","M",":","1">>, <<"G","1"," ","Z","1">>>>

\* C15 as stated: each _readline of send_line_wait_ok has its own deadline of
\* AckReadTimeout ticks, and a line that is not complete within the deadline
\* of its read is not accepted: the call fails with ReadTimeout instead.
C15_NoLineAfterDeadline ==
  CurIs("grbl") /\ Live.err # "ReadTimeout" => Live.read_d <= AckReadTimeout

\* C15, amended: each _readline of send_line_wait_ok has its own deadline,
\* counted from the start of that read whatever the earlier reads took; a
\* line complete within the deadline is always accepted, a line complete
\* more than one blocking byte read (SerialTimeout) after it never is and
\* the call fails with ReadTimeout, reading no further line.
C15_DeadlinePerRead ==
  CurIs("grbl") /\ Live.pc # "line" =>
    /\ Live.err # "ReadTimeout" => Live.read_d <= AckReadTimeout + SerialTimeout
    /\ Live.err = "ReadTimeout" =>
         /\ Live.pc = "failed"
         /\ Live.read_d > AckReadTimeout
         /\ Live.calls = WriteThenReads(Len(Live.got) + 1)
         /\ Live.ninfo = Len(Live.got)

C15_Witness ==
  /\ CurIs("grbl") /\ Live.err = "ReadTimeout" /\ Live.ninfo = 1
  /\ Live.elapsed = AckReadTimeout /\ Live.read_d = AckReadTimeout + SerialTimeout

\* C16: once processing a line has raised an error, run_file has ended with
\* it: the failing action is not retried, no device call follows, and no
\* later line of the file is read, counted or dispatched by that run.
C16_ErrorEndsRun ==
  [][\A m \in Modes : ex[m].err # "" =>
       /\ ex[m].pc \in {"failed", "crashed"}
       /\ ex[m].stats.gcode_lines_total = nread
       /\ ex'[m] = ex[m] /\ nread' = nread /\ raw' = raw]_vars

C16_Witness ==
  /\ Live.pc = "failed" /\ Live.err = "ControllerRejected"
  /\ Dry.pc = "read" /\ nread = 2 /\ Live.stats.gcode_lines_sent_grbl = 1

\* C17: however the program run ends, by reaching the end of the file or by
\* an error raised while a line is processed, the caller has switched the
\* illuminator off and blanked the display once the run has ended.
C17_DarkAfterRun ==
  \A m \in Modes :
    ex[m].pc \in {"exited", "failed"} =>
      ex[m].led = "off" /\ ex[m].screen = <<"black">>

\* how far the run m has advanced the counter f since it read the line
Delta(m, f) == ex[m].stats[f] - ex[m].stats_at_read[f]

\* 1 when the line is of class k and its handler got past float()
One(m, k) ==
  IF tally.class = k /\ ex[m].err # "ValueError"
  THEN 1 ELSE 0

\* C18: a line that is non-blank after comment stripping is handled by
\* exactly one handler: the one whose pattern (M6054, M106 S, G4 P, matched
\* in any letter case) it matches, else the sender to the controller.  Only
\* that handler's counter moves and only its calls are made; a line matching
\* a local pattern is never written to the controller, a line matching none
\* is written to it (live run).
C18_OneHandlerPerLine ==
  \A m \in Modes : ex[m].pc # "line" /\ nread > 0 =>
    /\ tally.class # "several"
    /\ Delta(m, "gcode_lines_total") = 1
    /\ Delta(m, "image_select_count") = One(m, "M6054")
    /\ Delta(m, "exposure_on_count") + Delta(m, "exposure_off_count") =
         (IF tally.class = "M106" /\ ex[m].err # "ValueError" THEN 1 ELSE 0)
    /\ Delta(m, "dwell_count") = One(m, "G4")
    /\ Delta(m, "gcode_lines_sent_grbl") <= One(m, "none")
    /\ tally.class \in {"blank", "M6054"} => ex[m].calls = <<>>
    /\ tally.class = "G4" =>
         \A i \in 1..Len(ex[m].calls) : ex[m].calls[i][1] = "display.sleep_with_pump"
    /\ tally.class # "none" =>
         /\ ~Has(ex[m], "grbl.write_line") /\ ~Has(ex[m], "grbl._readline")
         /\ \A i \in 1..Len(ex[m].tx) : ex[m].tx[i] = <<"?", "\n">>
    /\ tally.class = "none" /\ ~dry_run(m) =>
         /\ ex[m].calls[1] = Call("grbl.write_line")
         /\ ex[m].tx = <<Command \o <<"\n">>>>

C18_Witness ==
  /\ raw = L_selectQ /\ tally.class = "M6054" /\ Live.pc = "read"
  /\ Delta("live", "image_select_count") = 1 /\ Live.tx = <<>>
  /\ Live.stats.gcode_lines_sent_grbl = 1

\* where the letter c first stands in s, 0 if nowhere
FirstAt(s, c) ==
  IF \E i \in 1..Len(s) : s[i] = c
  THEN CHOOSE i \in 1..Len(s) : s[i] = c /\ \A k \in 1..(i - 1) : s[k] # c
  ELSE 0

\* C19 as stated: get_status yields the text between the first '<' and the
\* first '|' of the response line, and Unknown (None) for a line in which no
\* '|' follows a '<'.
C19_BetweenFirstMarks ==
  probe.fn = "get_status" =>
    LET i == FirstAt(probe.arg, "<")
        j == FirstAt(probe.arg, "|")
    IN probe.out = IF i > 0 /\ j > i THEN Slice(probe.arg, i + 1, j - 1)
                   ELSE NoState

\* C19, amended: for a response line that begins with '<' and holds a '|',
\* get_status yields the text between that '<' and the first '|'; for every
\* other line, also one in which '<' stands later, it yields Unknown (None).
C19_LeadingMark ==
  probe.fn = "get_status" =>
    LET j == FirstAt(probe.arg, "|")
    IN probe.out = IF FirstAt(probe.arg, "<") = 1 /\ j > 0
                   THEN Slice(probe.arg, 2, j - 1)
                   ELSE NoState

C19_Witness ==
  probe.fn = "get_status" /\ probe.arg = SampleStatus /\ probe.out = S_Idle

\* the name ends in an extension the handler takes as given
Recognized(name) ==
  \E e \in {<<".","p","n","g">>, <<".","b","m","p">>, <<".","j","p","g">>,
             <<".","j","p","e","g">>} : EndsWith(Lower(name), e)

\* the file name the claim gives for the name N: N, or N.png
FileName(name) ==
  IF Recognized(name) THEN name ELSE name \o <<".","p","n","g">>

C21_DryRunTouchesNothing ==
  /\ Dry.pc # "busy"
  /\ Dry.calls = <<>> /\ Dry.tx = <<>> /\ Dry.got = <<>>
  /\ Dry.polls = 0 /\ Dry.sleeps = 0
  /\ Dry.led = "off" /\ Dry.screen = <<"black">>

C21_Witness ==
  /\ CurIs("begin") /\ Live.pc = "read" /\ Live.calls = BeginOrder
  /\ Dry.pc = "read" /\ Dry.calls = <<>> /\ Dry.stats.exposure_on_count = 1
  /\ Dry.stats.gcode_lines_total = 3

\* C22: every run starts from a fresh session: when run_file starts,
\* current_image is unset, _exposure_active is false and all counters are
\* zero, whatever an earlier run of the same executor left behind; a
\* begin-exposure line with no M6054 line before it in this run raises
\* NoImageSelected.
C22_FreshSession ==
  \A m \in Modes :
    /\ nread = 0 /\ ex[m].pc = "read" =>
         /\ ex[m].current_image = None
         /\ ex[m]._exposure_active = FALSE
         /\ ex[m].stats = RunStats
    /\ CurIs("begin") /\ ex[m].pc # "line" /\ ~tally.selected =>
         ex[m].pc = "failed" /\ ex[m].err = "NoImageSelected"

\* the sequence s adds up to n
RECURSIVE Sum(_)
Sum(s) == IF s = <<>> THEN 0 ELSE Head(s) + Sum(Tail(s))

\* C23: the wait used for a dwell and for the dark delays is cut into slices
\* of at most 1/event_pump_hz that add up to the requested duration, and
\* pygame's pending events are processed once in every slice.
C23_PumpedEverySlice ==
  \A i \in 1..Len(Live.calls) :
    Live.calls[i][1] = "display.sleep_with_pump" /\ Live.calls[i][2] > 0 =>
      /\ Live.slices # <<>>
      /\ \A k \in 1..Len(Live.slices) : Live.slices[k] <= period
      /\ Sum(Live.slices) = Live.calls[i][2] * 1000
      /\ Live.pumped = Len(Live.slices)

\* C24: an end-exposure line (M106 S<1) counts exposure_off_count and has
\* _exposure_active false before its first device call; the live run then
\* calls projector.off and after it display.black; no image need be
\* selected and the controller is neither polled nor written to.
C24_EndExposure ==
  \A m \in Modes : CurIs("end") /\ ex[m].pc # "line" =>
    /\ ex[m]._exposure_active = FALSE
    /\ Delta(m, "exposure_off_count") = 1
    /\ ex[m].err \in {"", "DeviceError"}
    /\ ex[m].polls = 0 /\ ex[m].tx = <<>> /\ ex[m].got = <<>>
    /\ Len(ex[m].calls) >= 1 => ex[m].calls[1] = Call("projector.off")
    /\ Len(ex[m].calls) >= 2 => ex[m].calls[2] = Call("display.black")
    /\ Len(ex[m].calls) >= 3 => ex[m].calls[3][1] = "display.sleep_with_pump"
    /\ Len(ex[m].calls) <= 3
    /\ ~dry_run(m) /\ ex[m].pc = "busy" /\ ex[m].calls = <<>> =>
         Head(ex[m].todo) = Call("projector.off")
    /\ ~dry_run(m) /\ ex[m].pc = "read" =>
         Len(ex[m].calls) >= 2 /\ ex[m].led = "off" /\ ex[m].screen = <<"black">>

C24_Witness ==
  /\ CurIs("end") /\ Live.current_image = None /\ Live.pc = "read"
  /\ Live.calls = <<Call("projector.off"), Call("display.black")>>
  /\ Live.stats.exposure_off_count = 2 /\ Dry.stats.exposure_off_count = 2

\* C25: _exposure_active is false when the run starts, after every
\* end-exposure line and after a begin-exposure line that failed at any
\* step; it is true only if the most recent M106 line was a begin-exposure
\* and that line has gone through all its steps.
C25_ActiveOnlyAfterBegin ==
  \A m \in Modes :
    /\ nread = 0 => ~ex[m]._exposure_active
    /\ CurIs("end") /\ ex[m].pc # "line" => ~ex[m]._exposure_active
    /\ CurIs("begin") /\ ex[m].pc = "failed" => ~ex[m]._exposure_active
    /\ ex[m]._exposure_active =>
         /\ tally.lastexp = "begin"
         /\ CurIs("begin") => ex[m].pc \notin {"line", "busy", "failed"}

C25_Witness ==
  /\ CurIs("begin") /\ tally.begin = 2 /\ Live.pc = "failed"
  /\ Live.err = "DeviceError" /\ Has(Live, "display.show")
  /\ ~Live._exposure_active /\ Live.led_at_read = "on"

\* an exposure is on when the line is read: the last M106 line was a begin
\* that went through, and it left the projector lit
Exposing == tally.begin >= 2 /\ tally.lastexp = "begin" /\ Live.led_at_read = "on"

\* C26: a begin-exposure line read while an exposure is on is no error: it
\* makes the whole sequence again (wait_until_idle, projector.off,
\* display.black, the pre-exposure hold when the delay is positive,
\* display.show, projector.on), so the projector is dark from its
\* projector.off until its projector.on, display.show included, and the
\* pre-exposure delay is waited a second time.
C26_BeginReplays ==
  CurIs("begin") /\ Exposing /\ Live.pc # "line" =>
    /\ Live.current_image # None /\ Live.err # "NoImageSelected"
    /\ Dry.pc \notin {"busy", "failed"} /\ Dry.err = ""
    /\ IsPrefix(Live.calls, BeginOrder)
    /\ Live.pc = "busy" => Len(Live.calls) < Len(BeginOrder)
    /\ Live.pc = "read" => Live.calls = BeginOrder /\ Live.led = "on"
    /\ Live.err = "" /\ Has(Live, "projector.off") /\ ~Has(Live, "projector.on") =>
         Live.led = "off"
    /\ Has(Live, "display.show") =>
         /\ Live.calls[2] = Call("projector.off")
         /\ cfg.pre > 0 => Sum(Live.slices) = cfg.pre * 1000

C26_Witness ==
  /\ CurIs("begin") /\ Exposing /\ cfg.pre > 0 /\ Live.pc = "read"
  /\ Live.calls = BeginOrder /\ Live.stats.exposure_on_count = 2
  /\ Live.screen = Live.current_image /\ Len(Live.slices) > 1

\* the text of a program line without its ';' comment and outer blanks
Bare(line) ==
  LET semi == FirstAt(line, ";")
  IN Strip(IF semi = 0 THEN line ELSE SubSeq(line, 1, semi - 1))

\* commands written and not yet answered with 'ok': the command of the
\* current line, as long as no 'ok' has been read for it
Outstanding ==
  IF /\ CurIs("grbl") /\ Live.pc # "line"
     /\ ~(Live.got # <<>> /\ OkLine(Live.got[Len(Live.got)]))
  THEN 1 ELSE 0

\* every command line read so far is on the wire once, in the order read
C27_WrittenInOrder ==
  /\ Len(Live.wire) =
       Len(tally.moves) - (IF CurIs("grbl") /\ Live.pc = "line" THEN 1 ELSE 0)
  /\ \A i \in 1..Len(Live.wire) : Live.wire[i] = Bare(tally.moves[i]) \o <<"\n">>
  /\ Outstanding = 1 =>
       /\ Live.pc \in {"busy", "failed"}
       /\ Live.pc = "busy" => Head(Live.todo) = Call("grbl._readline")
       /\ Len(Live.wire) = Live.stats.gcode_lines_sent_grbl + 1
  /\ Outstanding = 0 => Len(Live.wire) = Live.stats.gcode_lines_sent_grbl
  /\ Dry.wire = <<>>

NoDeviceTouched(m) ==
  /\ ex[m].tx = <<>> /\ ex[m].got = <<>> /\ ex[m].polls = 0
  /\ Len(ex[m].wire) = ex[m].stats.gcode_lines_sent_grbl
  /\ \A i \in 1..Len(ex[m].calls) : ex[m].calls[i][1] = "display.sleep_with_pump"
  /\ ex[m].led = ex[m].led_at_read
  /\ ex[m].screen = ex[m].at_read.screen
  /\ ex[m]._exposure_active = ex[m].at_read._exposure_active

\* the counters other than gcode_lines_total and f are as when the line was read
OnlyCounter(m, f) ==
  /\ Delta(m, f) = 1
  /\ \A g \in DOMAIN RunStats \ {f, "gcode_lines_total"} : Delta(m, g) = 0

\* C28: an M6054 line and a G4 P line write nothing to the controller, poll
\* no status, switch no projector, neither blank the display nor show an
\* image, and leave _exposure_active as it is.  M6054 changes current_image
\* and image_select_count only; G4 changes dwell_count only and, in a live
\* run, makes one sleep_with_pump of P/1000 seconds.
C28_SelectAndDwellFrame ==
  \A m \in Modes : ex[m].pc \in {"busy", "read", "done"} =>
    /\ CurIs("M6054") =>
         /\ NoDeviceTouched(m) /\ OnlyCounter(m, "image_select_count")
         /\ ex[m].calls = <<>> /\ ex[m].slices = <<>> /\ ex[m].pc # "busy"
         /\ ex[m].current_image # None
    /\ CurIs("G4") =>
         /\ NoDeviceTouched(m) /\ OnlyCounter(m, "dwell_count")
         /\ ex[m].current_image = ex[m].at_read.current_image
         /\ dry_run(m) => ex[m].calls = <<>>
         /\ ~dry_run(m) /\ ex[m].pc = "busy" =>
               ex[m].calls = <<>> /\ Len(ex[m].todo) = 1
         /\ ~dry_run(m) /\ ex[m].pc # "busy" =>
               /\ Len(ex[m].calls) = 1
               /\ ex[m].calls[1][2] * 1000 = float(_RE_G4P(Bare(raw))[1])
               /\ Sum(ex[m].slices) = float(_RE_G4P(Bare(raw))[1])

C28_Witness ==
  /\ CurIs("G4") /\ Live.pc = "read" /\ Live.calls = <<Hold(5)>>
  /\ Live.slices = <<5000>> /\ Live.led = "on" /\ Live.screen # <<"black">>
  /\ Live.stats.dwell_count = 1 /\ Dry.stats.dwell_count = 1

\* send_line_wait_ok of the current line is still reading
Reading(e) == e.pc = "busy" /\ Head(e.todo) = Call("grbl._readline")

\* the call has ended in one of its three ways, or is still reading
C29_ThreeEndings ==
  CurIs("grbl") /\ Live.pc # "line" =>
    \/ Reading(Live) /\ Live.err = ""
    \/ Acked(Live) /\ OkLine(Live.ret) /\ Live.err \in {"", "DeviceError"}
    \/ Live.pc = "failed" /\ Live.err \in {"ControllerRejected", "ReadTimeout"}

\* C29: send_line_wait_ok comes to an end, returning 'ok' or raising
\* ControllerRejected or ReadTimeout, once the controller sends a terminal
\* line or no complete line any more; a line that is no answer never ends
\* it, however many were read before: only the deadline of a read does.
C29_AckWaitEnds ==
  /\ []C29_ThreeEndings
  /\ [][/\ Reading(Live) /\ Len(Live'.got) = Len(Live.got) + 1
        /\ AckOutcome(Live'.got[Len(Live'.got)]) = "more"
        => Reading(Live') /\ Live'.ninfo = Live.ninfo + 1]_vars
  /\ Reading(Live) ~> ~Reading(Live)

C29_Witness ==
  /\ CurIs("grbl") /\ Live.pc = "failed" /\ Live.err = "ReadTimeout"
  /\ Live.ninfo = 2 /\ Live.got = <<<<"[","m","]">>, <<"[","m","]">>>>
  /\ Live.read_d > AckReadTimeout + SerialTimeout

\* some line the run has read from the controller is the start-up banner
ReadBanner(e) ==
  \/ \E i \in 1..Len(e.got) : e.got[i] = Banner
  \/ e.st_raw = Banner

DisplayOps == {"display.black", "display.show"}

\* C31: during a run the display is changed only while the projector is
\* off: every display.black and display.show the executor calls comes after
\* a projector.off of the same line with no projector.on between them, in a
\* begin-exposure and in an end-exposure alike, and the projector is dark
\* when the call is made.
C31_DisplayChangesInTheDark ==
  /\ \A i \in 1..Len(Live.calls) : Live.calls[i][1] \in DisplayOps =>
       \E j \in 1..(i - 1) :
         /\ Live.calls[j] = Call("projector.off")
         /\ \A k \in (j + 1)..(i - 1) : Live.calls[k][1] # "projector.on"
  /\ Live.pc = "busy" /\ Head(Live.todo)[1] \in DisplayOps => Live.led = "off"
  /\ Live.screen # Live.at_read.screen /\ ~Has(Live, "projector.on") =>
       Live.led = "off"
  /\ \A i \in 1..Len(Dry.calls) : Dry.calls[i][1] \notin DisplayOps

C31_Witness ==
  /\ CurIs("end") /\ Live.led_at_read = "on" /\ Live.pc = "read"
  /\ Live.at_read.screen = Live.current_image /\ Live.screen = <<"black">>
  /\ Live.calls[2] = Call("display.black") /\ Live.led = "off"

\* C32 as stated: a status poll of wait_until_idle whose response line is
\* not complete within the read deadline of 2 ticks raises the read timeout
\* out of wait_until_idle; it is never taken as a status.
C32_NoStatusAfterDeadline ==
  CurIs("begin") /\ Live.polls >= 1 /\ Live.err # "ReadTimeout" =>
    Live.read_d <= StatusReadTimeout

\* C32, amended: a status line complete within the deadline of its read is
\* always taken, and degrades to Unknown (None) when it does not parse: the
\* wait then sleeps or gives up with AwaitIdleTimeout as for any other
\* state.  A line not complete within the deadline plus one blocking byte
\* read (SerialTimeout) is never taken: the TimeoutError of _readline leaves
\* wait_until_idle and ends the begin-exposure with no further poll and no
\* device call; in between either may happen.
C32_StatusTimeoutPropagates ==
  CurIs("begin") /\ Live.polls >= 1 =>
    /\ Live.err # "ReadTimeout" =>
         Live.read_d <= StatusReadTimeout + SerialTimeout
    /\ Live.err = "ReadTimeout" =>
         /\ Live.pc = "failed"
         /\ Live.read_d > StatusReadTimeout
         /\ Live.calls = <<Call("grbl.wait_until_idle")>>
         /\ Len(Live.tx) = Live.polls /\ Live.sleeps = Live.polls - 1
         /\ Live.polls = 1 => Live.last = <<>> /\ Live.st_raw = <<>>
         /\ Live.st_raw # TimeoutError
         /\ Live.led = Live.led_at_read /\ Live.screen = Live.at_read.screen
    /\ Live.last = NoState /\ Live.err # "ReadTimeout" =>
         /\ Live.st_raw \notin {<<>>, TimeoutError}
         /\ \/ Waiting(Live) /\ Live.sleeps = Live.polls
            \/ Live.pc = "failed" /\ Live.err = "AwaitIdleTimeout"

C32_Witness ==
  /\ CurIs("begin") /\ Live.err = "ReadTimeout" /\ Live.polls = 2
  /\ Live.last = NoState /\ Live.st_raw = <<"<","I","d","l","e",">">>
  /\ Live.read_d = StatusReadTimeout + SerialTimeout

\* C33: wait_until_idle polls the status at least once, also with a timeout
\* of 0, and looks at the deadline only after a poll that reported neither
\* Idle nor Alarm: a poll reporting Idle returns and a poll reporting Alarm
\* raises ControllerAlarm also when the timeout had elapsed before the poll
\* was answered.
C33_PollsBeforeDeadline ==
  /\ CurIs("begin") /\ Live.current_image # None /\ Live.pc # "line" =>
       /\ Live.polls = 0 => Waiting(Live) /\ Live.err = "" /\ Live.tx = <<>>
       /\ Live.polls >= 1 => Live.tx[1] = <<"?", "\n">>
  /\ Live.err = "AwaitIdleTimeout" =>
       /\ Live.polls >= 1 /\ Live.last \notin {S_Idle, S_Alarm}
       /\ Live.elapsed > cfg.idle
  /\ Live.polls >= 1 /\ Live.last = S_Idle =>
       ~Waiting(Live) /\ Live.err \notin WaitErrors
  /\ Live.polls >= 1 /\ Live.last = S_Alarm =>
       Live.pc = "failed" /\ Live.err = "ControllerAlarm"

C33_Witness ==
  /\ cfg.idle = 0 /\ CurIs("begin") /\ Live.polls = 2 /\ Live.sleeps = 1
  /\ Live.last = S_Idle /\ Live.pc = "read" /\ Live.calls = BeginOrder

\* the last line read for the current command is 'ok'
OkRead(e) == e.got # <<>> /\ OkLine(e.got[Len(e.got)])

\* C34: in a live run gcode_lines_sent_grbl is advanced only when the
\* controller has answered the command with 'ok': a command still waiting
\* for its answer, or ended by ControllerRejected or ReadTimeout, is not
\* counted, so the counter is at every moment the number of commands
\* answered with 'ok'.
C34_CountsAcknowledged ==
  /\ Live.stats.gcode_lines_sent_grbl =
       Len(tally.moves) - (IF CurIs("grbl") /\ ~OkRead(Live) THEN 1 ELSE 0)
  /\ CurIs("grbl") =>
       Delta("live", "gcode_lines_sent_grbl") = (IF OkRead(Live) THEN 1 ELSE 0)
  /\ CurIs("grbl") /\ Live.err \in {"ControllerRejected", "ReadTimeout"} =>
       ~OkRead(Live) /\ Len(Live.wire) = Live.stats.gcode_lines_sent_grbl + 1
  /\ ~CurIs("grbl") => Delta("live", "gcode_lines_sent_grbl") = 0

C34_Witness ==
  /\ CurIs("grbl") /\ Live.pc = "failed" /\ Live.err = "ReadTimeout"
  /\ Len(tally.moves) = 3 /\ Len(Live.wire) = 3
  /\ Live.stats.gcode_lines_sent_grbl = 2 /\ Live.got = <<>>

====
